---- MODULE Spec2Model ----
(***************************************************************************)
(* Contact page script (src/unnamed/part_000): ContactFormValidator,       *)
(* ContactFormHandler, showNotification and debounce, as a state machine   *)
(* over the DOM state they read and write and the timers they start.       *)
(*                                                                         *)
(* Strings are kept exactly, in run-length form: a string is a sequence of *)
(* runs [ch, n] (n >= 1 copies of the character ch), so that a message of  *)
(* 1001 characters is one run.                                             *)
(* Time is in milliseconds.  A timer holds the time left until it is due;  *)
(* time never passes a due timer, and timer callbacks that are due run in  *)
(* any order.                                                              *)
(***************************************************************************)
EXTENDS Naturals, Integers, Sequences, FiniteSets, TLC

\* ------------------------------------------------------------------------
\* CONTACT_CONFIG and the other delays of the script
\* ------------------------------------------------------------------------
VALIDATION_DELAY == 300
SUBMISSION_TIMEOUT == 10000
MIN_MESSAGE_LENGTH == 10
MAX_MESSAGE_LENGTH == 1000
SUBMIT_DELAY == 2000
NOTIFICATION_DELAY == 5000
SLIDE_OUT_DELAY == 300
COUNTER_DANGER == 50
COUNTER_WARN == 100

\* CONFIG of the landing page script, and the widths its handlers compare with
SCROLL_THRESHOLD == 100
SCROLL_TRACK_LIMIT == 1000
DEBOUNCE_DELAY == 16
THROTTLE_DELAY == 100
HEADER_HIDE_THRESHOLD == 200
NAV_BREAKPOINT == 768
HEADER_BREAKPOINT == 1024

MSG_SUCCESS == "Thank you for your message! We'll get back to you within 24 hours."
MSG_ERROR == "Sorry, there was an error sending your message. Please try again."
MSG_VALIDATION_ERROR == "Please fix the errors below and try again."
MSG_NETWORK_ERROR == "Network error. Please check your connection and try again."
MSG_INVALID_EMAIL == "Please enter a valid email address"
MSG_TOO_SHORT == "Message must be at least 10 characters"
MSG_TOO_LONG == "Message must be less than 1000 characters"

\* ------------------------------------------------------------------------
\* Bounds of the model
\* ------------------------------------------------------------------------
\* largest amount of time one Tick step lets pass
TickMs == 5000
\* number of user events (focus moves, input events, clicks on a close
\* button) in one run
MaxUserEvents == 4
\* the same, in the runs checked for liveness
MaxLiveUserEvents == 2
\* number of notification elements ever created in one run
MaxNotifications == 1
\* number of assignments to field.value in one run of the validation calls
MaxValueChanges == 2
\* length of the longest string given to the email rule
MaxEmailLength == 5
\* how far around MIN_MESSAGE_LENGTH and MAX_MESSAGE_LENGTH the lengths given
\* to the message rule go
MaxMargin == 2
\* number of searches in one run of the help search
MaxSearches == 3
\* number of times the mobile menu is opened in one run
MaxOpens == 3
\* number of scroll and resize events in one run of the header handler
MaxScrolls == 4
\* number of FamilyHubApp.init() calls in one run
MaxInitCalls == 3
\* number of calls of a debounced function in one run
MaxCalls == 4
\* largest amount of time one step lets pass between two calls of a debounced
\* function
CallGap == 100
\* largest amount of time one step lets pass inside a throttle window
CallStep == 50
\* the scrollable height of the page (scrollHeight - innerHeight), in rows
MaxScrollY == 8

\* ------------------------------------------------------------------------
\* The form: its fields in document order
\* ------------------------------------------------------------------------
FieldOrder == <<"name", "email", "subject", "message">>
FieldNames == {FieldOrder[i] : i \in 1..Len(FieldOrder)}

\* `${fieldName} is required`
RequiredMessage(fieldName) ==
    CASE fieldName = "Name" -> "Name is required"
      [] fieldName = "Email" -> "Email is required"
      [] fieldName = "Subject" -> "Subject is required"
      [] fieldName = "Message" -> "Message is required"

\* ------------------------------------------------------------------------
\* Strings
\* ------------------------------------------------------------------------
Whitespace == {" "}

Run(c, k) == [ch |-> c, n |-> k]
EmptyStr == << >>

RECURSIVE StrLen(_)
StrLen(s) == IF s = << >> THEN 0 ELSE Head(s).n + StrLen(Tail(s))

RECURSIVE TrimStart(_)
TrimStart(s) ==
    IF s = << >> THEN << >>
    ELSE IF Head(s).ch \in Whitespace THEN TrimStart(Tail(s)) ELSE s

RECURSIVE TrimEnd(_)
TrimEnd(s) ==
    IF s = << >> THEN << >>
    ELSE IF s[Len(s)].ch \in Whitespace THEN TrimEnd(SubSeq(s, 1, Len(s) - 1)) ELSE s

\* String.prototype.trim
Trim(s) == TrimEnd(TrimStart(s))

\* the characters of a string, one by one
RECURSIVE Chars(_)
Chars(s) ==
    IF s = << >> THEN << >>
    ELSE [i \in 1..Head(s).n |-> Head(s).ch] \o Chars(Tail(s))

\* [^\s@]
NotSpaceOrAt(c) == c \notin Whitespace /\ c # "@"

\* (variant: /^[^\s@]+@[^\s@]+$/, no dot asked for)
EMAIL_PATTERN_NoDot(s) ==
    LET cs == Chars(s)
        L == Len(cs)
    IN \E i \in 1..L :
          /\ cs[i] = "@"
          /\ i > 1
          /\ i < L
          /\ \A k \in 1..L : k # i => NotSpaceOrAt(cs[k])

\* EMAIL_PATTERN.test(s):  /^[^\s@]+@[^\s@]+\.[^\s@]+$/
EMAIL_PATTERN(s) ==
    LET cs == Chars(s)
        L == Len(cs)
    IN \E i \in 1..L :
          /\ cs[i] = "@"
          /\ i > 1
          /\ \A k \in 1..L : k # i => NotSpaceOrAt(cs[k])
          /\ \E j \in (i + 2)..(L - 1) : cs[j] = "."

\* ------------------------------------------------------------------------
\* Values the user types
\* ------------------------------------------------------------------------
NameValues == { EmptyStr, <<Run(" ", 1)>>, <<Run("J", 1), Run("o", 1)>> }
SubjectValues == { EmptyStr, <<Run("H", 1), Run("i", 1)>> }
EmailValues ==
    { EmptyStr,
      <<Run("a", 1)>>,
      <<Run("a", 1), Run("@", 1), Run("b", 1), Run(".", 1), Run("c", 1)>>,
      <<Run("a", 1), Run("@", 1), Run("b", 1), Run(".", 1), Run("c", 1), Run(" ", 1)>> }
MessageValues ==
    { EmptyStr,
      <<Run("x", 5)>>,
      <<Run("x", 20)>>,
      <<Run(" ", 2), Run("x", 5), Run(" ", 5)>> }

\* Values a control can hold when the script starts (restored or filled in by
\* the browser before DOMContentLoaded)
Filled(f) ==
    CASE f = "name" -> <<Run("J", 1), Run("o", 1)>>
      [] f = "email" -> <<Run("a", 1), Run("@", 1), Run("b", 1), Run(".", 1), Run("c", 1)>>
      [] f = "subject" -> <<Run("H", 1), Run("i", 1)>>
      [] f = "message" -> <<Run("x", 20)>>

InitialValues(f) == {EmptyStr, Filled(f)}

InputValues(f) ==
    CASE f = "name" -> NameValues
      [] f = "email" -> EmailValues
      [] f = "subject" -> SubjectValues
      [] f = "message" -> MessageValues

\* ------------------------------------------------------------------------
\* State
\* ------------------------------------------------------------------------
VARIABLES
    validator,      \* ContactFormValidator: [errors, isValid]
    fields,         \* the four form controls: name -> [value, disabled, aria]
    groups,         \* their .form-group elements: name -> [classes, errorText]
    focused,        \* document.activeElement: a field name, "submit" or "body"
    verdict,        \* history: name -> what the latest rule run on the field returned
    handler,        \* ContactFormHandler: [isSubmitting]
    submitButton,   \* the submit button: [disabled, loading, text]
    counter,        \* the .character-counter element: [length, color]
    debounceTimer,  \* the one `timeout` of debouncedValidation: [pending, field, left]
    inflight,       \* submitForm calls that have not settled: sequence of [elapsed, settles]
    notifications,  \* notification elements and their timers
    lastOp,         \* history: the operation that ran last and how it ended
    budget,         \* the number of user events the run still admits
    nav,            \* landing page: MobileNavigation, the menu and its key handlers
    header,         \* landing page: HeaderScrollHandler, the window and its scroll throttle
    app,            \* landing page: FamilyHubApp and its pending init() calls
    bouncer,        \* a function made by debounce(func, wait), and its timers
    analytics,      \* landing page: AnalyticsHandler, its events and scroll milestones
    throttler       \* a function made by throttle(func, limit), and its timer

vars == <<validator, fields, groups, focused, verdict, handler, submitButton, counter,
          debounceTimer, inflight, notifications, lastOp, budget, nav, header, app, bouncer,
          analytics, throttler>>

\* the state of the landing page script (src/script.js), which the contact
\* page script does not share, and the other way round
landingVars == <<nav, header, app, bouncer, analytics, throttler>>
contactVars == <<validator, fields, groups, focused, verdict, handler, submitButton, counter,
                 debounceTimer, inflight, notifications, budget>>

\* null, as FormData.get gives for a control that is not submitted
Null == <<[ch |-> "null", n |-> 0]>>

\* !value
Falsy(v) == v = EmptyStr \/ v = Null

\* a Map as a function on its keys (the insertion order of the keys is not kept)
EmptyMap == [k \in {} |-> ""]
MapSet(m, k, v) == [x \in (DOMAIN m) \cup {k} |-> IF x = k THEN v ELSE m[x]]
MapDelete(m, k) == [x \in (DOMAIN m) \ {k} |-> m[x]]

\* The part of the state the validation code works on, as one value
World == [validator |-> validator, fields |-> fields, groups |-> groups,
          focused |-> focused, verdict |-> verdict]

\* ------------------------------------------------------------------------
\* ContactFormValidator
\* ------------------------------------------------------------------------
\* (variant: the Map is replaced by one that holds the new entry only)
addError_Resets(w, f, message) ==
    [w EXCEPT !.validator.errors = MapSet(EmptyMap, f, message),
              !.validator.isValid = FALSE,
              !.groups[f].classes = (@ \cup {"error"}) \ {"success"},
              !.fields[f].aria = "true",
              !.groups[f].errorText = message]

addError(w, f, message) ==
    [w EXCEPT !.validator.errors = MapSet(@, f, message),
              !.validator.isValid = FALSE,
              !.groups[f].classes = (@ \cup {"error"}) \ {"success"},
              !.fields[f].aria = "true",
              !.groups[f].errorText = message]

\* (variant: the key stays in the Map)
removeError_KeepsKey(w, f) ==
    [w EXCEPT !.groups[f].classes = (@ \ {"error"}) \cup {"success"},
              !.fields[f].aria = "false",
              !.groups[f].errorText = ""]

\* (variant: classList.toggle("success"))
removeError_Toggle(w, f) ==
    [w EXCEPT !.validator.errors = MapDelete(@, f),
              !.groups[f].classes =
                  IF "success" \in @ THEN @ \ {"error", "success"}
                  ELSE (@ \ {"error"}) \cup {"success"},
              !.fields[f].aria = "false",
              !.groups[f].errorText = ""]

removeError(w, f) ==
    [w EXCEPT !.validator.errors = MapDelete(@, f),
              !.groups[f].classes = (@ \ {"error"}) \cup {"success"},
              !.fields[f].aria = "false",
              !.groups[f].errorText = ""]

\* what a rule function returns for field f: the world it leaves and its
\* return value, which is also recorded as the latest verdict on f
Returns(w, f, ok) ==
    [w |-> [w EXCEPT !.verdict[f] = IF ok THEN "pass" ELSE "fail"], ok |-> ok]

validateRequired(w, f, value, fieldName) ==
    IF Falsy(value) \/ Trim(value) = EmptyStr
    THEN Returns(addError(w, f, RequiredMessage(fieldName)), f, FALSE)
    ELSE Returns(removeError(w, f), f, TRUE)

validateEmail(w, f, email) ==
    IF Falsy(email) THEN Returns(w, f, FALSE)
    ELSE IF ~EMAIL_PATTERN(email)
    THEN Returns(addError(w, f, MSG_INVALID_EMAIL), f, FALSE)
    ELSE Returns(removeError(w, f), f, TRUE)

\* (variant: >= in place of >)
validateMessage_Exclusive(w, f, message) ==
    IF Falsy(message) THEN Returns(w, f, FALSE)
    ELSE IF StrLen(message) < MIN_MESSAGE_LENGTH
    THEN Returns(addError(w, f, MSG_TOO_SHORT), f, FALSE)
    ELSE IF StrLen(message) >= MAX_MESSAGE_LENGTH
    THEN Returns(addError(w, f, MSG_TOO_LONG), f, FALSE)
    ELSE Returns(removeError(w, f), f, TRUE)

validateMessage(w, f, message) ==
    IF Falsy(message) THEN Returns(w, f, FALSE)
    ELSE IF StrLen(message) < MIN_MESSAGE_LENGTH
    THEN Returns(addError(w, f, MSG_TOO_SHORT), f, FALSE)
    ELSE IF StrLen(message) > MAX_MESSAGE_LENGTH
    THEN Returns(addError(w, f, MSG_TOO_LONG), f, FALSE)
    ELSE Returns(removeError(w, f), f, TRUE)

\* (variant: isValid is not set back to true)
validateForm_StaleIsValid(w, formData) ==
    LET w0 == [w EXCEPT !.validator.errors = EmptyMap]
        r1 == validateRequired(w0, "name", formData["name"], "Name")
        q2 == validateRequired(r1.w, "email", formData["email"], "Email")
        r2 == IF q2.ok THEN validateEmail(q2.w, "email", formData["email"]) ELSE q2
        r3 == validateRequired(r2.w, "subject", formData["subject"], "Subject")
        q4 == validateRequired(r3.w, "message", formData["message"], "Message")
        r4 == IF q4.ok THEN validateMessage(q4.w, "message", formData["message"]) ELSE q4
    IN [w |-> r4.w, ok |-> r4.w.validator.isValid]

\* (variant: & in place of &&, the second rule runs whatever the first returned)
validateForm_BothRules(w, formData) ==
    LET w0 == [w EXCEPT !.validator.errors = EmptyMap, !.validator.isValid = TRUE]
        r1 == validateRequired(w0, "name", formData["name"], "Name")
        q2 == validateRequired(r1.w, "email", formData["email"], "Email")
        r2 == validateEmail(q2.w, "email", formData["email"])
        r3 == validateRequired(r2.w, "subject", formData["subject"], "Subject")
        q4 == validateRequired(r3.w, "message", formData["message"], "Message")
        r4 == validateMessage(q4.w, "message", formData["message"])
    IN [w |-> r4.w, ok |-> r4.w.validator.isValid]

validateForm(w, formData) ==
    LET w0 == [w EXCEPT !.validator.errors = EmptyMap, !.validator.isValid = TRUE]
        r1 == validateRequired(w0, "name", formData["name"], "Name")
        q2 == validateRequired(r1.w, "email", formData["email"], "Email")
        r2 == IF q2.ok THEN validateEmail(q2.w, "email", formData["email"]) ELSE q2
        r3 == validateRequired(r2.w, "subject", formData["subject"], "Subject")
        q4 == validateRequired(r3.w, "message", formData["message"], "Message")
        r4 == IF q4.ok THEN validateMessage(q4.w, "message", formData["message"]) ELSE q4
    IN [w |-> r4.w, ok |-> r4.w.validator.isValid]

\* the statement of validateForm for one field
validateFormField(w, f, formData) ==
    CASE f = "name" -> validateRequired(w, "name", formData["name"], "Name").w
      [] f = "email" ->
           LET r == validateRequired(w, "email", formData["email"], "Email")
           IN IF r.ok THEN validateEmail(r.w, "email", formData["email"]).w ELSE r.w
      [] f = "subject" -> validateRequired(w, "subject", formData["subject"], "Subject").w
      [] f = "message" ->
           LET r == validateRequired(w, "message", formData["message"], "Message")
           IN IF r.ok THEN validateMessage(r.w, "message", formData["message"]).w ELSE r.w

\* ------------------------------------------------------------------------
\* ContactFormHandler: validation of one field, focus
\* ------------------------------------------------------------------------
\* (variant: the whole form is validated)
validateField_WholeForm(w, f) ==
    validateForm(w, [g \in FieldNames |-> w.fields[g].value]).w

validateField(w, f) ==
    LET value == Trim(w.fields[f].value)
    IN CASE f = "name" -> validateRequired(w, f, value, "Name").w
         [] f = "email" ->
              LET r == validateRequired(w, f, value, "Email")
              IN IF r.ok THEN validateEmail(r.w, f, value).w ELSE r.w
         [] f = "subject" -> validateRequired(w, f, value, "Subject").w
         [] f = "message" ->
              LET r == validateRequired(w, f, value, "Message")
              IN IF r.ok THEN validateMessage(r.w, f, value).w ELSE r.w
         [] OTHER -> w

\* new FormData(form): the values of the controls that are not disabled
FormData(w) ==
    [f \in FieldNames |-> IF w.fields[f].disabled THEN Null ELSE w.fields[f].value]

\* the blur listener of bindEvents, run for the element that loses focus
BlurListener(w) ==
    IF w.focused \in FieldNames THEN validateField(w, w.focused) ELSE w

\* element.focus(): nothing for a disabled control or the focused element;
\* otherwise the focused element gets its blur event and focus moves
Focus(w, target) ==
    IF target \in FieldNames /\ w.fields[target].disabled THEN w
    ELSE IF w.focused = target THEN w
    ELSE [BlurListener(w) EXCEPT !.focused = target]

\* (variant: the last such control)
FirstErrorField_Last(w) ==
    LET bad == {i \in 1..Len(FieldOrder) : "error" \in w.groups[FieldOrder[i]].classes}
    IN IF bad = {} THEN "none"
       ELSE FieldOrder[CHOOSE i \in bad : \A j \in bad : i >= j]

\* the first control, in document order, inside a .form-group.error
FirstErrorField(w) ==
    LET bad == {i \in 1..Len(FieldOrder) : "error" \in w.groups[FieldOrder[i]].classes}
    IN IF bad = {} THEN "none"
       ELSE FieldOrder[CHOOSE i \in bad : \A j \in bad : i <= j]

focusFirstError(w) ==
    IF FirstErrorField(w) = "none" THEN w ELSE Focus(w, FirstErrorField(w))

\* ------------------------------------------------------------------------
\* showNotification
\* ------------------------------------------------------------------------
\* notifications = [elements, attached, autoTimers, removeTimers]:
\*   elements      every notification element created so far, by identity:
\*                 [type, message, animation]
\*   attached      the elements that are children of document.body, in order
\*   autoTimers    the pending 5 s timers, as [id, left]
\*   removeTimers  the pending 300 ms timers that end in notification.remove(),
\*                 as [id, left]; two timers of one element that are due at the
\*                 same time are one entry, remove() being idempotent
RemoveId(seq, id) == SelectSeq(seq, LAMBDA x : x # id)

\* (variant: the notification on the page is left there)
showNotification_Keeps(n, message, type) ==
    LET id == Len(n.elements) + 1
    IN [n EXCEPT !.elements = Append(@, [type |-> type, message |-> message,
                                         animation |-> "slideIn"]),
                 !.attached = Append(@, id),
                 !.autoTimers = @ \cup {[id |-> id, left |-> NOTIFICATION_DELAY]}]

showNotification(n, message, type) ==
    LET kept == IF n.attached # << >> THEN Tail(n.attached) ELSE n.attached
        id == Len(n.elements) + 1
    IN [n EXCEPT !.elements = Append(@, [type |-> type, message |-> message,
                                         animation |-> "slideIn"]),
                 !.attached = Append(kept, id),
                 !.autoTimers = @ \cup {[id |-> id, left |-> NOTIFICATION_DELAY]}]

\* ------------------------------------------------------------------------
\* ContactFormHandler: the character counter, the submitting state
\* ------------------------------------------------------------------------
GREY == "#6c757d"
YELLOW == "#ffc107"
RED == "#dc3545"

\* (variant: <= in place of <)
updateCounter_Inclusive(value) ==
    LET length == StrLen(value)
        remaining == MAX_MESSAGE_LENGTH - length
    IN [length |-> length,
        color |-> IF remaining <= COUNTER_DANGER THEN RED
                  ELSE IF remaining <= COUNTER_WARN THEN YELLOW ELSE GREY]

updateCounter(value) ==
    LET length == StrLen(value)
        remaining == MAX_MESSAGE_LENGTH - length
    IN [length |-> length,
        color |-> IF remaining < COUNTER_DANGER THEN RED
                  ELSE IF remaining < COUNTER_WARN THEN YELLOW ELSE GREY]

\* the state the submission code works on, as one value
Page == [w |-> World, handler |-> handler, submitButton |-> submitButton,
         counter |-> counter, notifications |-> notifications,
         inflight |-> inflight]

\* setSubmittingState.  A focused control that becomes disabled loses the
\* focus to the body without a blur event (HTML focus fixup).
\* (variant: the fields are left as they are)
setSubmittingState_ButtonOnly(p, isSubmitting) ==
    [p EXCEPT !.handler.isSubmitting = isSubmitting,
              !.submitButton = [disabled |-> isSubmitting,
                                loading |-> isSubmitting,
                                text |-> IF isSubmitting THEN "Sending..."
                                         ELSE "Send Message"]]

setSubmittingState(p, isSubmitting) ==
    [p EXCEPT !.handler.isSubmitting = isSubmitting,
              !.submitButton = [disabled |-> isSubmitting,
                                loading |-> isSubmitting,
                                text |-> IF isSubmitting THEN "Sending..."
                                         ELSE "Send Message"],
              !.w.fields = [f \in FieldNames |-> [@[f] EXCEPT !.disabled = isSubmitting]],
              !.w.focused = IF isSubmitting /\ @ # "body" THEN "body" ELSE @]

clearValidationStates(w) ==
    [w EXCEPT !.groups = [f \in FieldNames |->
                             [classes |-> @[f].classes \ {"error", "success"},
                              errorText |-> ""]],
              !.fields = [f \in FieldNames |-> [@[f] EXCEPT !.aria = "unset"]]]

\* form.reset(): every control back to its default value, the empty string
FormReset(w) ==
    [w EXCEPT !.fields = [f \in FieldNames |-> [@[f] EXCEPT !.value = EmptyStr]]]

handleSuccess(p) ==
    LET shown == [p EXCEPT !.notifications = showNotification(@, MSG_SUCCESS, "success")]
        cleared == [shown EXCEPT !.w = clearValidationStates(FormReset(@))]
        counted == [cleared EXCEPT !.counter = [length |-> 0, color |-> GREY]]
    IN [counted EXCEPT !.w = Focus(@, FieldOrder[1])]

handleError(p, message) ==
    [p EXCEPT !.notifications = showNotification(@, message, "error")]

\* ------------------------------------------------------------------------
\* ContactFormHandler.handleSubmit
\* ------------------------------------------------------------------------
\* What the promise of submitForm can do.  The shipped body resolves with
\* {success: true} after SUBMIT_DELAY; the implementation it stands for
\* (fetch, then response.json()) can also resolve with a failure object, with
\* or without a message, resolve with null, reject, or never settle.
Outcomes == {"success", "failure_message", "failure", "null", "reject"}
SERVER_MESSAGE == "server message"

\* submitForm(formData): one more pending call
submitForm(p, settles) ==
    [p EXCEPT !.inflight = Append(@, [elapsed |-> 0, settles |-> settles])]

\* (variant: no isSubmitting check)
handleSubmit_Unguarded(p, settles) ==
    LET formData == FormData(p.w)
        r == validateForm(p.w, formData)
    IN IF ~r.ok
       THEN [p |-> [p EXCEPT
                      !.notifications = showNotification(@, MSG_VALIDATION_ERROR, "error"),
                      !.w = focusFirstError(r.w)],
             result |-> "invalid"]
       ELSE [p |-> submitForm(setSubmittingState([p EXCEPT !.w = r.w], TRUE), settles),
             result |-> "submitted"]

\* handleSubmit up to the await
handleSubmit(p, settles) ==
    IF p.handler.isSubmitting THEN [p |-> p, result |-> "ignored"]
    ELSE LET formData == FormData(p.w)
             r == validateForm(p.w, formData)
         IN IF ~r.ok
            THEN [p |-> [p EXCEPT
                           !.notifications = showNotification(@, MSG_VALIDATION_ERROR, "error"),
                           !.w = focusFirstError(r.w)],
                  result |-> "invalid"]
            ELSE [p |-> submitForm(setSubmittingState([p EXCEPT !.w = r.w], TRUE), settles),
                  result |-> "submitted"]

\* (variant: a failure response is sent again)
resumeSubmit_Retry(p, outcome) ==
    LET handled ==
          CASE outcome = "success" -> handleSuccess(p)
            [] outcome = "failure_message" -> submitForm(handleError(p, SERVER_MESSAGE), TRUE)
            [] outcome = "failure" -> submitForm(handleError(p, MSG_ERROR), TRUE)
            [] outcome = "null" -> handleError(p, MSG_NETWORK_ERROR)
            [] outcome = "reject" -> handleError(p, MSG_NETWORK_ERROR)
    IN IF outcome \in {"failure_message", "failure"} THEN handled
       ELSE setSubmittingState(handled, FALSE)

\* (variant: no finally block, the state is reset on the way out of try only)
resumeSubmit_NoFinally(p, outcome) ==
    CASE outcome = "success" -> setSubmittingState(handleSuccess(p), FALSE)
      [] outcome = "failure_message" -> setSubmittingState(handleError(p, SERVER_MESSAGE), FALSE)
      [] outcome = "failure" -> setSubmittingState(handleError(p, MSG_ERROR), FALSE)
      [] outcome = "null" -> handleError(p, MSG_NETWORK_ERROR)
      [] outcome = "reject" -> handleError(p, MSG_NETWORK_ERROR)

\* (variant: any response object counts as a success)
resumeSubmit_AnyResponse(p, outcome) ==
    LET handled ==
          CASE outcome = "success" -> handleSuccess(p)
            [] outcome = "failure_message" -> handleSuccess(p)
            [] outcome = "failure" -> handleSuccess(p)
            [] outcome = "null" -> handleError(p, MSG_NETWORK_ERROR)
            [] outcome = "reject" -> handleError(p, MSG_NETWORK_ERROR)
    IN setSubmittingState(handled, FALSE)

\* handleSubmit after the await: try, catch and finally
resumeSubmit(p, outcome) ==
    LET handled ==
          CASE outcome = "success" -> handleSuccess(p)
            [] outcome = "failure_message" -> handleError(p, SERVER_MESSAGE)
            [] outcome = "failure" -> handleError(p, MSG_ERROR)
            \* response.success of null throws a TypeError: the catch block
            [] outcome = "null" -> handleError(p, MSG_NETWORK_ERROR)
            [] outcome = "reject" -> handleError(p, MSG_NETWORK_ERROR)
    IN setSubmittingState(handled, FALSE)

\* ------------------------------------------------------------------------
\* The landing page (src/script.js) before any event
\* ------------------------------------------------------------------------
\* the components of FamilyHubApp.initializeComponents, in its order
ComponentOrder ==
    <<"mobileNav", "smoothScrolling", "animationObserver", "headerScrollHandler",
      "performanceMonitor", "accessibilityHandler", "analyticsHandler">>
Components == {ComponentOrder[i] : i \in 1..Len(ComponentOrder)} \cup {"errorHandler"}

\* the elements trapFocus finds in the nav links (querySelectorAll, line 254)
FocusableElements == <<"first", "last">>

\* new MobileNavigation() on a phone: the menu closed, no key handler of
\* trapFocus registered, no resize pending; opens counts the calls of open()
NavStart ==
    [isOpen |-> FALSE, active |-> FALSE, ariaExpanded |-> "false", overflow |-> "",
     focused |-> "body", tabHandlers |-> 0, escapeListeners |-> 0,
     width |-> NAV_BREAKPOINT - 1, opens |-> 0,
     resize |-> [pending |-> FALSE, left |-> 0]]

\* new HeaderScrollHandler() at the top of the page, on a tablet; scrolls
\* counts the scroll events
HeaderStart ==
    [isHeaderHidden |-> FALSE, transform |-> "", backdropFilter |-> "",
     lastScrollTop |-> 0, scrollTop |-> 0,
     width |-> HEADER_BREAKPOINT, inThrottle |-> FALSE, left |-> 0, scrolls |-> 0]

\* new FamilyHubApp()
AppStart ==
    [isInitialized |-> FALSE, constructed |-> [c \in Components |-> 0],
     pending |-> << >>, calls |-> 0, warnings |-> 0, loaded |-> FALSE]

\* debounce(func, wait) before its first call: `timeout` undefined, no timer;
\* quiet, burst and args are the history of the calls, runs that of func
BouncerStart ==
    [timeout |-> 0, timers |-> {}, created |-> 0,
     quiet |-> 0, burst |-> 0, args |-> "none", calls |-> 0, runs |-> << >>]

\* new AnalyticsHandler() at the top of the page: no event, no milestone;
\* scrolls counts the scroll events, added the milestones of the latest run
AnalyticsStart ==
    [events |-> << >>, trackedMilestones |-> {}, scrollY |-> 0,
     produced |-> << >>, added |-> 0, scrolls |-> 0]

\* throttle(func, limit) before its first call: `inThrottle` undefined, no
\* timer; calls, runs, windows and age are the history of the calls
ThrottlerStart ==
    [inThrottle |-> FALSE, timers |-> {}, created |-> 0,
     calls |-> 0, runs |-> << >>, windows |-> 0, age |-> 0]

LandingInit ==
    /\ nav = NavStart
    /\ header = HeaderStart
    /\ app = AppStart
    /\ bouncer = BouncerStart
    /\ analytics = AnalyticsStart
    /\ throttler = ThrottlerStart

\* ------------------------------------------------------------------------
\* Initial state: the page after ContactPageApp.init()
\* ------------------------------------------------------------------------
Op(name, result) == [op |-> name, result |-> result]

InitPage ==
    /\ validator = [errors |-> EmptyMap, isValid |-> TRUE]
    /\ \E initial \in [FieldNames -> UNION {InitialValues(f) : f \in FieldNames}] :
         /\ \A f \in FieldNames : initial[f] \in InitialValues(f)
         /\ fields = [f \in FieldNames |->
                        [value |-> initial[f], disabled |-> FALSE, aria |-> "unset"]]
         /\ counter = updateCounter(initial["message"])
    /\ groups = [f \in FieldNames |-> [classes |-> {}, errorText |-> ""]]
    /\ focused = "body"
    /\ handler = [isSubmitting |-> FALSE]
    /\ submitButton = [disabled |-> FALSE, loading |-> FALSE, text |-> "Send Message"]
    /\ debounceTimer = [pending |-> FALSE, field |-> "none", left |-> 0]
    /\ inflight = << >>
    /\ notifications = [elements |-> << >>, attached |-> << >>,
                        autoTimers |-> {}, removeTimers |-> {}]
    /\ verdict = [f \in FieldNames |-> "none"]
    /\ lastOp = Op("init", "-")
    /\ LandingInit

Init == InitPage /\ budget = MaxUserEvents

SetWorld(w) ==
    /\ validator' = w.validator
    /\ fields' = w.fields
    /\ groups' = w.groups
    /\ focused' = w.focused
    /\ verdict' = w.verdict

SetPage(p) ==
    /\ SetWorld(p.w)
    /\ handler' = p.handler
    /\ submitButton' = p.submitButton
    /\ counter' = p.counter
    /\ notifications' = p.notifications
    /\ inflight' = p.inflight

\* ------------------------------------------------------------------------
\* Events
\* ------------------------------------------------------------------------
\* The user moves the focus (click or Tab) to a control that is not disabled,
\* or away from the form: the blur listener of the control that had it runs.
UserEvent ==
    /\ budget > 0
    /\ budget' = budget - 1

UserFocus(target) ==
    /\ UserEvent
    /\ target # focused
    /\ target \in FieldNames => ~fields[target].disabled
    /\ target = "submit" => ~submitButton.disabled
    /\ SetWorld(Focus(World, target))
    /\ lastOp' = Op("focus", "-")
    /\ UNCHANGED <<handler, submitButton, counter, debounceTimer, inflight, notifications>>
    /\ UNCHANGED landingVars

\* An input event of the focused control: the input listeners of
\* setupRealTimeValidation (debounced) and of setupCharacterCounter.
UserInput(f, v) ==
    /\ UserEvent
    /\ focused = f
    /\ ~fields[f].disabled
    /\ v # fields[f].value
    /\ fields' = [fields EXCEPT ![f].value = v]
    /\ debounceTimer' = [pending |-> TRUE, field |-> f, left |-> VALIDATION_DELAY]
    /\ counter' = IF f = "message" THEN updateCounter(v) ELSE counter
    /\ lastOp' = Op("input", "-")
    /\ UNCHANGED <<validator, groups, focused, verdict, handler, submitButton, inflight,
                   notifications>>
    /\ UNCHANGED landingVars

\* The timer of debounce is due: later()
DebounceFire ==
    /\ debounceTimer.pending
    /\ debounceTimer.left = 0
    /\ debounceTimer' = [pending |-> FALSE, field |-> "none", left |-> 0]
    /\ SetWorld(validateField(World, debounceTimer.field))
    /\ lastOp' = Op("debounced", "-")
    /\ UNCHANGED <<handler, submitButton, counter, inflight, notifications, budget>>
    /\ UNCHANGED landingVars

\* A submit event of the form, or a call of handleSubmit()
HandleSubmit ==
    /\ \/ handler.isSubmitting
       \/ Len(notifications.elements) + Len(inflight) < MaxNotifications
    /\ \E settles \in BOOLEAN :
         LET r == handleSubmit(Page, settles)
         IN /\ SetPage(r.p)
            /\ lastOp' = Op("handleSubmit", r.result)
    /\ UNCHANGED <<debounceTimer, budget>>
    /\ UNCHANGED landingVars

\* The promise of a submitForm call settles and handleSubmit goes on
SubmitSettle ==
    /\ \E i \in 1..Len(inflight) :
         /\ inflight[i].settles
         /\ inflight[i].elapsed = SUBMIT_DELAY
         /\ \E outcome \in Outcomes :
              LET p == [Page EXCEPT !.inflight =
                           SubSeq(inflight, 1, i - 1) \o SubSeq(inflight, i + 1, Len(inflight))]
              IN /\ SetPage(resumeSubmit(p, outcome))
                 /\ lastOp' = Op("settled", outcome)
    /\ UNCHANGED <<debounceTimer, budget>>
    /\ UNCHANGED landingVars

\* The user clicks the close button of a notification on the page
CloseClick ==
    /\ UserEvent
    /\ \E id \in {notifications.attached[i] : i \in 1..Len(notifications.attached)} :
         notifications' = [notifications EXCEPT
                             !.elements[id].animation = "slideOut",
                             !.removeTimers = @ \cup {[id |-> id, left |-> SLIDE_OUT_DELAY]}]
    /\ lastOp' = Op("close", "-")
    /\ UNCHANGED <<validator, fields, groups, focused, verdict, handler, submitButton, counter,
                   debounceTimer, inflight>>
    /\ UNCHANGED landingVars

\* (variant: the timer acts on the first notification of the page)
NotificationTimeout_First ==
    /\ \E t \in notifications.autoTimers :
         /\ t.left = 0
         /\ notifications' =
              IF notifications.attached # << >>
              THEN [notifications EXCEPT
                      !.autoTimers = @ \ {t},
                      !.elements[Head(notifications.attached)].animation = "slideOut",
                      !.removeTimers = @ \cup {[id |-> Head(notifications.attached),
                                               left |-> SLIDE_OUT_DELAY]}]
              ELSE [notifications EXCEPT !.autoTimers = @ \ {t}]
    /\ lastOp' = Op("autoDismiss", "-")
    /\ UNCHANGED <<validator, fields, groups, focused, verdict, handler, submitButton, counter,
                   debounceTimer, inflight, budget>>
    /\ UNCHANGED landingVars

\* (variant: the animation starts and no removal is scheduled)
NotificationTimeout_NoRemoval ==
    /\ \E t \in notifications.autoTimers :
         /\ t.left = 0
         /\ notifications' = [notifications EXCEPT
                                !.autoTimers = @ \ {t},
                                !.elements[t.id].animation = "slideOut"]
    /\ lastOp' = Op("autoDismiss", "-")
    /\ UNCHANGED <<validator, fields, groups, focused, verdict, handler, submitButton, counter,
                   debounceTimer, inflight, budget>>
    /\ UNCHANGED landingVars

\* The 5 s timer of a notification is due
NotificationTimeout ==
    /\ \E t \in notifications.autoTimers :
         /\ t.left = 0
         /\ LET isAttached == \E i \in 1..Len(notifications.attached) :
                                 notifications.attached[i] = t.id
            IN notifications' =
                 IF isAttached
                 THEN [notifications EXCEPT
                         !.autoTimers = @ \ {t},
                         !.elements[t.id].animation = "slideOut",
                         !.removeTimers = @ \cup {[id |-> t.id, left |-> SLIDE_OUT_DELAY]}]
                 ELSE [notifications EXCEPT !.autoTimers = @ \ {t}]
    /\ lastOp' = Op("autoDismiss", "-")
    /\ UNCHANGED <<validator, fields, groups, focused, verdict, handler, submitButton, counter,
                   debounceTimer, inflight, budget>>
    /\ UNCHANGED landingVars

\* A 300 ms timer of a notification is due: notification.remove()
NotificationRemove ==
    /\ \E t \in notifications.removeTimers :
         /\ t.left = 0
         /\ notifications' = [notifications EXCEPT
                                !.removeTimers = @ \ {t},
                                !.attached = RemoveId(@, t.id)]
    /\ lastOp' = Op("removed", "-")
    /\ UNCHANGED <<validator, fields, groups, focused, verdict, handler, submitButton, counter,
                   debounceTimer, inflight, budget>>
    /\ UNCHANGED landingVars

\* ------------------------------------------------------------------------
\* Time
\* ------------------------------------------------------------------------
\* how long until each pending timer is due; a call that never settles is
\* clocked up to SUBMISSION_TIMEOUT
CallLeft(c) ==
    IF c.settles THEN SUBMIT_DELAY - c.elapsed ELSE SUBMISSION_TIMEOUT - c.elapsed

Waits ==
    (IF debounceTimer.pending THEN {debounceTimer.left} ELSE {})
    \cup {t.left : t \in notifications.autoTimers}
    \cup {t.left : t \in notifications.removeTimers}
    \cup {CallLeft(inflight[i]) : i \in {j \in 1..Len(inflight) : inflight[j].settles}}

Clocks ==
    {CallLeft(inflight[i]) : i \in {j \in 1..Len(inflight) : ~inflight[j].settles}} \ {0}

SetMin(S) == CHOOSE x \in S : \A y \in S : x <= y

Tick ==
    /\ 0 \notin Waits
    /\ Waits \cup Clocks # {}
    /\ LET d == SetMin(Waits \cup Clocks \cup {TickMs})
       IN /\ debounceTimer' = IF debounceTimer.pending
                              THEN [debounceTimer EXCEPT !.left = @ - d]
                              ELSE debounceTimer
          /\ inflight' = [i \in 1..Len(inflight) |->
                            IF CallLeft(inflight[i]) = 0 THEN inflight[i]
                            ELSE [inflight[i] EXCEPT !.elapsed = @ + d]]
          /\ notifications' = [notifications EXCEPT
                                 !.autoTimers = {[t EXCEPT !.left = @ - d] : t \in @},
                                 !.removeTimers = {[t EXCEPT !.left = @ - d] : t \in @}]
    /\ lastOp' = Op("tick", "-")
    /\ UNCHANGED <<validator, fields, groups, focused, verdict, handler, submitButton, counter, budget>>
    /\ UNCHANGED landingVars

Next ==
    \/ \E target \in FieldNames \cup {"submit", "body"} : UserFocus(target)
    \/ \E f \in FieldNames : \E v \in InputValues(f) : UserInput(f, v)
    \/ DebounceFire
    \/ HandleSubmit
    \/ SubmitSettle
    \/ CloseClick
    \/ NotificationTimeout
    \/ NotificationRemove
    \/ Tick

Spec == Init /\ [][Next]_vars

\* The event loop: callbacks that are due run, and time goes on.  Nothing is
\* assumed of the user.
EventLoop ==
    Tick \/ SubmitSettle \/ DebounceFire \/ NotificationTimeout \/ NotificationRemove

LiveInit == InitPage /\ budget = MaxLiveUserEvents

LiveSpec == LiveInit /\ [][Next]_vars /\ WF_vars(EventLoop)

\* ------------------------------------------------------------------------
\* The validation calls on their own: ContactFormValidator.validateForm and
\* ContactFormHandler.validateField called directly (both classes are
\* exported), on controls whose values are assigned by script, so that no
\* event listener runs in between.
\* ------------------------------------------------------------------------
AssignedValues(f) ==
    IF f = "email" THEN EmailValues \cup {<<Run(" ", 2)>>} ELSE InputValues(f)

\* field.value = v
SetFieldValue(f, v) ==
    /\ budget > 0
    /\ budget' = budget - 1
    /\ v # fields[f].value
    /\ fields' = [fields EXCEPT ![f].value = v]
    /\ lastOp' = Op("setValue", f)
    /\ UNCHANGED <<validator, groups, focused, verdict, handler, submitButton, counter,
                   debounceTimer, inflight, notifications>>
    /\ UNCHANGED landingVars

\* validator.validateForm(new FormData(form))
CallValidateForm ==
    /\ LET r == validateForm(World, FormData(World))
       IN /\ SetWorld(r.w)
          /\ lastOp' = Op("validateForm", IF r.ok THEN "true" ELSE "false")
    /\ UNCHANGED <<handler, submitButton, counter, debounceTimer, inflight, notifications,
                   budget>>
    /\ UNCHANGED landingVars

\* handler.validateField(field)
CallValidateField(f) ==
    /\ SetWorld(validateField(World, f))
    /\ lastOp' = Op("validateField", f)
    /\ UNCHANGED <<handler, submitButton, counter, debounceTimer, inflight, notifications,
                   budget>>
    /\ UNCHANGED landingVars

ValidatorInit == InitPage /\ budget = MaxValueChanges

ValidatorNext ==
    \/ \E f \in FieldNames : \E v \in AssignedValues(f) : SetFieldValue(f, v)
    \/ CallValidateForm
    \/ \E f \in FieldNames : CallValidateField(f)

ValidatorSpec == ValidatorInit /\ [][ValidatorNext]_vars

\* ------------------------------------------------------------------------
\* The rule functions on their own: validateRequired, validateEmail and
\* validateMessage called directly on a control and its value.  One control,
\* the email or the message field, holds a string under test from the start.
\* ------------------------------------------------------------------------
EmailAlphabet == {"a", "@", ".", " "}

\* the strings of exactly k characters of the alphabet
RECURSIVE StringsOfLength(_)
StringsOfLength(k) ==
    IF k = 0 THEN {EmptyStr}
    ELSE {<<Run(c, 1)>> \o s : c \in EmailAlphabet, s \in StringsOfLength(k - 1)}

EmailStrings == UNION {StringsOfLength(k) : k \in 0..MaxEmailLength}

MessageLengths ==
    (1..(MIN_MESSAGE_LENGTH + MaxMargin))
    \cup ((MAX_MESSAGE_LENGTH - MaxMargin)..(MAX_MESSAGE_LENGTH + MaxMargin))

MessageStrings == {EmptyStr} \cup {<<Run(c, n)>> : c \in {"x", " "}, n \in MessageLengths}

RuleStrings(f) == IF f = "email" THEN EmailStrings ELSE MessageStrings

RuleInit ==
    /\ validator = [errors |-> EmptyMap, isValid |-> TRUE]
    /\ \E g \in {"email", "message"} : \E v \in RuleStrings(g) :
         /\ fields = [f \in FieldNames |->
                        [value |-> IF f = g THEN v ELSE EmptyStr,
                         disabled |-> FALSE, aria |-> "unset"]]
         /\ counter = updateCounter(IF g = "message" THEN v ELSE EmptyStr)
    /\ groups = [f \in FieldNames |-> [classes |-> {}, errorText |-> ""]]
    /\ focused = "body"
    /\ handler = [isSubmitting |-> FALSE]
    /\ submitButton = [disabled |-> FALSE, loading |-> FALSE, text |-> "Send Message"]
    /\ debounceTimer = [pending |-> FALSE, field |-> "none", left |-> 0]
    /\ inflight = << >>
    /\ notifications = [elements |-> << >>, attached |-> << >>,
                        autoTimers |-> {}, removeTimers |-> {}]
    /\ verdict = [f \in FieldNames |-> "none"]
    /\ lastOp = Op("init", "-")
    /\ LandingInit
    /\ budget = 0

\* validator.validateRequired(field, field.value, label)
CallValidateRequired(f) ==
    /\ SetWorld(validateRequired(World, f, fields[f].value,
                                 CASE f = "name" -> "Name" [] f = "email" -> "Email"
                                   [] f = "subject" -> "Subject"
                                   [] f = "message" -> "Message").w)
    /\ lastOp' = Op("validateRequired", f)
    /\ UNCHANGED <<handler, submitButton, counter, debounceTimer, inflight, notifications,
                   budget>>
    /\ UNCHANGED landingVars

\* validator.validateEmail(emailField, emailField.value)
CallValidateEmail ==
    /\ SetWorld(validateEmail(World, "email", fields["email"].value).w)
    /\ lastOp' = Op("validateEmail", "email")
    /\ UNCHANGED <<handler, submitButton, counter, debounceTimer, inflight, notifications,
                   budget>>
    /\ UNCHANGED landingVars

\* validator.validateMessage(messageField, messageField.value)
CallValidateMessage ==
    /\ SetWorld(validateMessage(World, "message", fields["message"].value).w)
    /\ lastOp' = Op("validateMessage", "message")
    /\ UNCHANGED <<handler, submitButton, counter, debounceTimer, inflight, notifications,
                   budget>>
    /\ UNCHANGED landingVars

RuleNext ==
    \/ \E f \in FieldNames : CallValidateRequired(f)
    \/ CallValidateEmail
    \/ CallValidateMessage

RuleSpec == RuleInit /\ [][RuleNext]_vars

\* ------------------------------------------------------------------------
\* The notifications on their own: HelpSearchHandler.performSearch is the
\* caller of showNotification, the user closes notifications with the close
\* button or the Escape key, and the timers run.
\* ------------------------------------------------------------------------
MSG_SEARCH_EMPTY == "Please enter a search term"
MSG_SEARCHING == "Searching for: \"faq\""

\* what the search input holds when the search runs
SearchQueries == {EmptyStr, <<Run(" ", 1)>>, <<Run("f", 1), Run("a", 1), Run("q", 1)>>}

performSearch(n, value) ==
    LET query == Trim(value)
    IN IF Falsy(query) THEN showNotification(n, MSG_SEARCH_EMPTY, "error")
       ELSE showNotification(n, MSG_SEARCHING, "info")

\* A click on the search button, or Enter in the search input
PerformSearch(value) ==
    /\ Len(notifications.elements) < MaxSearches
    /\ notifications' = performSearch(notifications, value)
    /\ lastOp' = Op("search", notifications'.elements[Len(notifications'.elements)].type)
    /\ UNCHANGED <<validator, fields, groups, focused, verdict, handler, submitButton, counter,
                   debounceTimer, inflight, budget>>
    /\ UNCHANGED landingVars

\* The Escape key: the close button of the first notification on the page
\* is clicked
EscapeKey ==
    /\ UserEvent
    /\ notifications.attached # << >>
    /\ LET id == Head(notifications.attached)
       IN notifications' = [notifications EXCEPT
                              !.elements[id].animation = "slideOut",
                              !.removeTimers = @ \cup {[id |-> id, left |-> SLIDE_OUT_DELAY]}]
    /\ lastOp' = Op("escape", "-")
    /\ UNCHANGED <<validator, fields, groups, focused, verdict, handler, submitButton, counter,
                   debounceTimer, inflight>>
    /\ UNCHANGED landingVars

NotifyInit ==
    /\ InitPage
    /\ \A f \in FieldNames : fields[f].value = EmptyStr
    /\ budget = MaxLiveUserEvents

NotifyNext ==
    \/ \E value \in SearchQueries : PerformSearch(value)
    \/ CloseClick
    \/ EscapeKey
    \/ NotificationTimeout
    \/ NotificationRemove
    \/ Tick

NotifySpec == NotifyInit /\ [][NotifyNext]_vars /\ WF_vars(EventLoop)

\* ------------------------------------------------------------------------
\* The character counter on its own: the user types messages whose lengths
\* lie around the two thresholds and around MAX_MESSAGE_LENGTH.
\* ------------------------------------------------------------------------
CounterLengths ==
    {1}
    \cup ((MAX_MESSAGE_LENGTH - COUNTER_WARN - MaxMargin)
            ..(MAX_MESSAGE_LENGTH - COUNTER_WARN + MaxMargin))
    \cup ((MAX_MESSAGE_LENGTH - COUNTER_DANGER - MaxMargin)
            ..(MAX_MESSAGE_LENGTH - COUNTER_DANGER + MaxMargin))
    \cup ((MAX_MESSAGE_LENGTH - MaxMargin)..(MAX_MESSAGE_LENGTH + MaxMargin))

CounterValues == {<<Run("x", n)>> : n \in CounterLengths}

CounterInit ==
    /\ InitPage
    /\ \A f \in FieldNames : fields[f].value = EmptyStr
    /\ budget = MaxUserEvents

CounterNext ==
    \/ \E target \in {"message", "body"} : UserFocus(target)
    \/ \E v \in CounterValues : UserInput("message", v)
    \/ DebounceFire
    \/ Tick

CounterSpec == CounterInit /\ [][CounterNext]_vars

\* ------------------------------------------------------------------------
\* debounce(func, wait), the same function in both scripts, with the timers
\* of the window as a table: here func is validateField's wrapper and wait
\* is VALIDATION_DELAY, as in setupRealTimeValidation.
\* bouncer = [timeout, timers, created, quiet, burst, args, calls, runs]:
\*   timeout  the closure variable: the id of the timer set last, 0 before
\*   timers   the pending timers, as [id, left, args]
\*   created  the number of timers created so far
\*   quiet    history: the time since the latest call, up to wait
\*   burst    history: the calls made since func ran last
\*   args     history: the argument of the latest call
\*   runs     history: the arguments func was run with, in order
\* ------------------------------------------------------------------------
\* a page on which nothing happens
QuietPage ==
    /\ InitPage
    /\ \A f \in FieldNames : fields[f].value = EmptyStr
    /\ budget = 0

clearTimeout(timers, id) == {t \in timers : t.id # id}

\* (variant: the pending timer is not cleared)
executedFunction_NoClear(b, args, wait) ==
    LET id == b.created + 1
    IN [b EXCEPT !.timers = @ \cup {[id |-> id, left |-> wait, args |-> args]},
                 !.timeout = id,
                 !.created = id,
                 !.quiet = 0, !.burst = @ + 1, !.args = args, !.calls = @ + 1]

\* the function debounce returns: clearTimeout(timeout); timeout = setTimeout(later, wait)
executedFunction(b, args, wait) ==
    LET id == b.created + 1
    IN [b EXCEPT !.timers = clearTimeout(@, b.timeout)
                              \cup {[id |-> id, left |-> wait, args |-> args]},
                 !.timeout = id,
                 !.created = id,
                 !.quiet = 0, !.burst = @ + 1, !.args = args, !.calls = @ + 1]

\* later(), the callback of the timer t: clearTimeout(timeout); func.apply(this, args)
later(b, t) ==
    [b EXCEPT !.timers = clearTimeout(@ \ {t}, b.timeout),
              !.burst = 0,
              !.runs = Append(@, t.args)]

BouncerArgs == {"name", "email"}

BouncerCall(args) ==
    /\ bouncer.calls < MaxCalls
    /\ bouncer' = executedFunction(bouncer, args, VALIDATION_DELAY)
    /\ lastOp' = Op("call", args)
    /\ UNCHANGED <<contactVars, nav, header, app, analytics, throttler>>

BouncerFire ==
    /\ \E t \in bouncer.timers :
         /\ t.left = 0
         /\ bouncer' = later(bouncer, t)
         /\ lastOp' = Op("later", t.args)
    /\ UNCHANGED <<contactVars, nav, header, app, analytics, throttler>>

BouncerTick ==
    /\ bouncer.timers # {}
    /\ \A t \in bouncer.timers : t.left > 0
    /\ LET d == SetMin({t.left : t \in bouncer.timers} \cup {CallGap})
       IN bouncer' = [bouncer EXCEPT
                        !.timers = {[t EXCEPT !.left = @ - d] : t \in @},
                        !.quiet = IF @ + d > VALIDATION_DELAY THEN VALIDATION_DELAY
                                  ELSE @ + d]
    /\ lastOp' = Op("tick", "-")
    /\ UNCHANGED <<contactVars, nav, header, app, analytics, throttler>>

DebounceNext ==
    \/ \E args \in BouncerArgs : BouncerCall(args)
    \/ BouncerFire
    \/ BouncerTick

DebounceSpec == QuietPage /\ [][DebounceNext]_vars /\ WF_vars(BouncerFire \/ BouncerTick)

\* ------------------------------------------------------------------------
\* MobileNavigation (src/script.js): toggle, link, outside click, keys, resize
\* ------------------------------------------------------------------------
\* trapFocus(): focuses the first element, registers handleTabKey and an
\* anonymous keydown listener that removes handleTabKey on Escape
trapFocus(n) ==
    IF Len(FocusableElements) = 0 THEN n
    ELSE [n EXCEPT !.focused = FocusableElements[1],
                   !.tabHandlers = @ + 1,
                   !.escapeListeners = @ + 1]

open(n) ==
    LET opened == [n EXCEPT !.active = TRUE, !.ariaExpanded = "true", !.isOpen = TRUE,
                            !.opens = @ + 1]
    IN [trapFocus(opened) EXCEPT !.overflow = "hidden"]

\* (variant: the body scroll lock is not released)
close_KeepsScrollLock(n) ==
    [n EXCEPT !.active = FALSE, !.ariaExpanded = "false", !.isOpen = FALSE]

close(n) ==
    [n EXCEPT !.active = FALSE, !.ariaExpanded = "false", !.isOpen = FALSE,
              !.overflow = ""]

toggle(n) == IF n.isOpen THEN close(n) ELSE open(n)

\* handleTabKey, registered at least once: wraps the focus at both ends
handleTabKey(n, shiftKey) ==
    IF shiftKey /\ n.focused = FocusableElements[1]
        THEN [n EXCEPT !.focused = FocusableElements[Len(FocusableElements)]]
    ELSE IF ~shiftKey /\ n.focused = FocusableElements[Len(FocusableElements)]
        THEN [n EXCEPT !.focused = FocusableElements[1]]
    ELSE n

FocusTargets == {"body", "toggle"} \cup {FocusableElements[i] : i \in 1..Len(FocusableElements)}
NavWidths == {NAV_BREAKPOINT - 1, NAV_BREAKPOINT, NAV_BREAKPOINT + 1}
LinkTargets == {"link", "btn"}

\* click on the toggle button (the document listener ignores it)
ToggleClick ==
    /\ nav.isOpen \/ nav.opens < MaxOpens
    /\ nav' = toggle(nav)
    /\ lastOp' = Op("toggle", "-")
    /\ UNCHANGED <<contactVars, header, app, bouncer, analytics, throttler>>

\* click inside the nav links: a plain link closes the menu, a .btn does not
LinkClick(target) ==
    /\ nav' = IF target = "link" THEN close(nav) ELSE nav
    /\ lastOp' = Op("linkClick", target)
    /\ UNCHANGED <<contactVars, header, app, bouncer, analytics, throttler>>

\* click outside the toggle button and the nav links
OutsideClick ==
    /\ nav' = IF nav.isOpen THEN close(nav) ELSE nav
    /\ lastOp' = Op("outsideClick", "-")
    /\ UNCHANGED <<contactVars, header, app, bouncer, analytics, throttler>>

\* keydown Escape: the listener of bindEvents, then every anonymous listener
\* of trapFocus, each removing its own handleTabKey
NavEscape ==
    /\ LET closed == IF nav.isOpen THEN [close(nav) EXCEPT !.focused = "toggle"] ELSE nav
       IN nav' = [closed EXCEPT !.tabHandlers = IF nav.escapeListeners > 0 THEN 0 ELSE @]
    /\ lastOp' = Op("escape", "-")
    /\ UNCHANGED <<contactVars, header, app, bouncer, analytics, throttler>>

\* keydown Tab: the registered handleTabKey wraps the focus; where it does
\* not preventDefault the browser moves the focus to some element
NavTab(shiftKey, target) ==
    /\ LET handled == IF nav.tabHandlers > 0 THEN handleTabKey(nav, shiftKey) ELSE nav
       IN nav' = IF handled # nav THEN handled ELSE [nav EXCEPT !.focused = target]
    /\ lastOp' = Op("tab", IF shiftKey THEN "shift" ELSE "-")
    /\ UNCHANGED <<contactVars, header, app, bouncer, analytics, throttler>>

\* window resize: the debounced handler restarts its 16 ms timer
NavResize(w) ==
    /\ w # nav.width
    /\ nav' = [nav EXCEPT !.width = w,
                          !.resize = [pending |-> TRUE, left |-> DEBOUNCE_DELAY]]
    /\ lastOp' = Op("resize", "-")
    /\ UNCHANGED <<contactVars, header, app, bouncer, analytics, throttler>>

\* the debounced resize handler runs
NavResizeFire ==
    /\ nav.resize.pending
    /\ nav.resize.left = 0
    /\ LET n == IF nav.width > NAV_BREAKPOINT /\ nav.isOpen THEN close(nav) ELSE nav
       IN nav' = [n EXCEPT !.resize = [pending |-> FALSE, left |-> 0]]
    /\ lastOp' = Op("resized", "-")
    /\ UNCHANGED <<contactVars, header, app, bouncer, analytics, throttler>>

NavTick ==
    /\ nav.resize.pending
    /\ nav.resize.left > 0
    /\ nav' = [nav EXCEPT !.resize.left = 0]
    /\ lastOp' = Op("tick", "-")
    /\ UNCHANGED <<contactVars, header, app, bouncer, analytics, throttler>>

NavNext ==
    \/ ToggleClick
    \/ \E target \in LinkTargets : LinkClick(target)
    \/ OutsideClick
    \/ NavEscape
    \/ \E shiftKey \in BOOLEAN, target \in FocusTargets : NavTab(shiftKey, target)
    \/ \E w \in NavWidths : NavResize(w)
    \/ NavResizeFire
    \/ NavTick

NavSpec == QuietPage /\ [][NavNext]_vars

\* ------------------------------------------------------------------------
\* HeaderScrollHandler (src/script.js): throttled scroll events, window width
\* ------------------------------------------------------------------------
updateHeaderBackground(h, scrollTop) ==
    [h EXCEPT !.backdropFilter = IF scrollTop > SCROLL_THRESHOLD THEN "blur(15px)"
                                 ELSE "blur(10px)"]

hideHeader(h) == [h EXCEPT !.transform = "translateY(-100%)", !.isHeaderHidden = TRUE]

showHeader(h) == [h EXCEPT !.transform = "translateY(0)", !.isHeaderHidden = FALSE]

updateHeaderVisibility(h, scrollTop) ==
    IF h.width > HEADER_BREAKPOINT THEN h
    ELSE LET isScrollingDown == scrollTop > h.lastScrollTop
             shouldHideHeader == isScrollingDown /\ scrollTop > HEADER_HIDE_THRESHOLD
         IN IF shouldHideHeader /\ ~h.isHeaderHidden THEN hideHeader(h)
            ELSE IF ~isScrollingDown /\ h.isHeaderHidden THEN showHeader(h)
            ELSE h

handleScroll(h) ==
    LET scrollTop == h.scrollTop
    IN [updateHeaderVisibility(updateHeaderBackground(h, scrollTop), scrollTop)
          EXCEPT !.lastScrollTop = scrollTop]

\* the throttled listener: runs handleScroll unless a run is less than
\* THROTTLE_DELAY old
throttledScroll(h) ==
    IF ~h.inThrottle
        THEN [handleScroll(h) EXCEPT !.inThrottle = TRUE, !.left = THROTTLE_DELAY]
    ELSE h

ScrollPositions ==
    {0, SCROLL_THRESHOLD + 1, HEADER_HIDE_THRESHOLD, HEADER_HIDE_THRESHOLD + 1,
     HEADER_HIDE_THRESHOLD + 2}
HeaderWidths == {HEADER_BREAKPOINT - 1, HEADER_BREAKPOINT, HEADER_BREAKPOINT + 1}

\* the page is scrolled to y and the scroll event is delivered
ScrollEvent(y) ==
    /\ header.scrolls < MaxScrolls
    /\ y # header.scrollTop
    /\ header' = throttledScroll([header EXCEPT !.scrollTop = y, !.scrolls = @ + 1])
    /\ lastOp' = Op("scroll", IF header.inThrottle THEN "throttled" ELSE "handled")
    /\ UNCHANGED <<contactVars, nav, app, bouncer, analytics, throttler>>

\* the window is resized: HeaderScrollHandler has no resize listener
HeaderResize(w) ==
    /\ w # header.width
    /\ header' = [header EXCEPT !.width = w]
    /\ lastOp' = Op("resize", "-")
    /\ UNCHANGED <<contactVars, nav, app, bouncer, analytics, throttler>>

\* the timer of throttle: inThrottle = false
ThrottleRelease ==
    /\ header.inThrottle
    /\ header.left = 0
    /\ header' = [header EXCEPT !.inThrottle = FALSE]
    /\ lastOp' = Op("release", "-")
    /\ UNCHANGED <<contactVars, nav, app, bouncer, analytics, throttler>>

HeaderTick ==
    /\ header.inThrottle
    /\ header.left > 0
    /\ header' = [header EXCEPT !.left = 0]
    /\ lastOp' = Op("tick", "-")
    /\ UNCHANGED <<contactVars, nav, app, bouncer, analytics, throttler>>

HeaderNext ==
    \/ \E y \in ScrollPositions : ScrollEvent(y)
    \/ \E w \in HeaderWidths : HeaderResize(w)
    \/ ThrottleRelease
    \/ HeaderTick

HeaderSpec == QuietPage /\ [][HeaderNext]_vars

\* ------------------------------------------------------------------------
\* FamilyHubApp (src/script.js): init() calls and the microtasks they leave
\* ------------------------------------------------------------------------
\* `new X()` for the component c
construct(a, c) == [a EXCEPT !.constructed[c] = @ + 1]

\* one iteration of the loop of initializeComponents for the call k:
\* `await initializer()` constructs the component and yields to the
\* microtask queue
awaitInitializer(a, k, i) ==
    [construct(a, ComponentOrder[i]) EXCEPT !.pending = Append(@, [call |-> k, at |-> i])]

\* init() up to its await: the guard, new ErrorHandler(), and
\* initializeComponents() up to its first await
init(a) ==
    LET k == a.calls + 1
        called == [a EXCEPT !.calls = k]
    IN IF a.isInitialized THEN [called EXCEPT !.warnings = @ + 1]
       ELSE awaitInitializer(construct(called, "errorHandler"), k, 1)

\* the continuation t resumes: the next iteration of the loop, or after the
\* last one the return of initializeComponents, which resumes init() one
\* microtask later: isInitialized = true, body.classList.add("loaded")
resume(a, t) ==
    LET rest == [a EXCEPT !.pending = Tail(@)]
    IN IF t.at < Len(ComponentOrder) THEN awaitInitializer(rest, t.call, t.at + 1)
       ELSE IF t.at = Len(ComponentOrder)
           THEN [rest EXCEPT !.pending = Append(@, [call |-> t.call, at |-> t.at + 1])]
       ELSE [rest EXCEPT !.isInitialized = TRUE, !.loaded = TRUE]

\* app.init() is called, by the startup code or by any other script, in the
\* current task or from a microtask of its own
InitCall ==
    /\ app.calls < MaxInitCalls
    /\ app' = init(app)
    /\ lastOp' = Op("app.init", IF app.isInitialized THEN "warned" ELSE "started")
    /\ UNCHANGED <<contactVars, nav, header, bouncer, analytics, throttler>>

\* the event loop runs the oldest microtask
RunMicrotask ==
    /\ app.pending # << >>
    /\ app' = resume(app, Head(app.pending))
    /\ lastOp' = Op("microtask", "-")
    /\ UNCHANGED <<contactVars, nav, header, bouncer, analytics, throttler>>

AppNext ==
    \/ InitCall
    \/ RunMicrotask

AppSpec == QuietPage /\ [][AppNext]_vars

\* ------------------------------------------------------------------------
\* throttle(func, limit) (src/script.js), as HeaderScrollHandler wraps
\* handleScroll with it
\* ------------------------------------------------------------------------
\* (variant: func runs and no window is opened)
throttled_NoWindow(t, args, limit) ==
    [t EXCEPT !.runs = Append(@, args), !.calls = @ + 1]

\* the function throttle returns: outside a window func.apply(this, args),
\* inThrottle = true, setTimeout(..., limit); inside a window nothing
throttled(t, args, limit) ==
    IF ~t.inThrottle
        THEN LET id == t.created + 1
             IN [t EXCEPT !.runs = Append(@, args),
                          !.inThrottle = TRUE,
                          !.timers = @ \cup {[id |-> id, left |-> limit, limit |-> limit]},
                          !.created = id,
                          !.calls = @ + 1, !.windows = @ + 1, !.age = 0]
    ELSE [t EXCEPT !.calls = @ + 1]

\* the callback of the timer: inThrottle = false
release(t, timer) ==
    [t EXCEPT !.inThrottle = FALSE, !.timers = @ \ {timer}]

\* the throttled function is called with args
ThrottleCall(args) ==
    /\ throttler.calls < MaxCalls
    /\ throttler' = throttled(throttler, args, THROTTLE_DELAY)
    /\ lastOp' = Op("call", args)
    /\ UNCHANGED <<contactVars, nav, header, app, bouncer, analytics>>

\* a timer of throttle has run out and its callback runs
ThrottleTimeout ==
    /\ \E timer \in throttler.timers :
         /\ timer.left = 0
         /\ throttler' = release(throttler, timer)
    /\ lastOp' = Op("release", "-")
    /\ UNCHANGED <<contactVars, nav, header, app, bouncer, analytics>>

\* time passes inside a window, at most CallStep at once
ThrottleTick ==
    /\ throttler.timers # {}
    /\ \A timer \in throttler.timers : timer.left > 0
    /\ LET d == SetMin({timer.left : timer \in throttler.timers} \cup {CallStep})
       IN throttler' = [throttler EXCEPT
                          !.timers = {[timer EXCEPT !.left = @ - d] : timer \in @},
                          !.age = @ + d]
    /\ lastOp' = Op("tick", "-")
    /\ UNCHANGED <<contactVars, nav, header, app, bouncer, analytics>>

ThrottleNext ==
    \/ \E args \in {"scroll1", "scroll2"} : ThrottleCall(args)
    \/ ThrottleTimeout
    \/ ThrottleTick

ThrottleSpec == QuietPage /\ [][ThrottleNext]_vars

\* ------------------------------------------------------------------------
\* AnalyticsHandler (src/script.js): scroll depth tracking, throttled
\* ------------------------------------------------------------------------
ScrollMilestones == <<25, 50, 75, 100>>

\* Math.round(scrollY / (scrollHeight - innerHeight) * 100), halves upwards
scrollPercent(y) == (200 * y + MaxScrollY) \div (2 * MaxScrollY)

\* trackEvent(eventName, properties): this.events.push(event)
trackEvent(a, eventName, percentage) ==
    LET event == [name |-> eventName, percentage |-> percentage]
    IN [a EXCEPT !.events = Append(@, event), !.produced = Append(@, event)]

\* (variant: the milestone is not remembered)
trackMilestone_NoSet(a, percent, milestone) ==
    IF percent >= milestone /\ milestone \notin a.trackedMilestones
        THEN trackEvent([a EXCEPT !.added = @ + 1], "Scroll_Depth", milestone)
    ELSE a

\* the body of scrollMilestones.forEach
trackMilestone(a, percent, milestone) ==
    IF percent >= milestone /\ milestone \notin a.trackedMilestones
        THEN trackEvent([a EXCEPT !.trackedMilestones = @ \cup {milestone},
                                  !.added = @ + 1],
                        "Scroll_Depth", milestone)
    ELSE a

\* the function wrapped by throttle: every milestone, in the order of the array
trackScrollDepth(a) ==
    LET percent == scrollPercent(a.scrollY)
        a1 == trackMilestone([a EXCEPT !.added = 0], percent, ScrollMilestones[1])
        a2 == trackMilestone(a1, percent, ScrollMilestones[2])
        a3 == trackMilestone(a2, percent, ScrollMilestones[3])
    IN trackMilestone(a3, percent, ScrollMilestones[4])

\* the page is scrolled to the row y and the scroll event is delivered to
\* the throttled trackScrollDepth
AnalyticsScroll(y) ==
    /\ analytics.scrolls < MaxScrolls
    /\ y # analytics.scrollY
    /\ LET moved == [analytics EXCEPT !.scrollY = y, !.scrolls = @ + 1]
       IN analytics' = IF throttler.inThrottle THEN moved ELSE trackScrollDepth(moved)
    /\ throttler' = throttled(throttler, "scroll", SCROLL_TRACK_LIMIT)
    /\ lastOp' = Op("scroll", IF throttler.inThrottle THEN "throttled" ELSE "handled")
    /\ UNCHANGED <<contactVars, nav, header, app, bouncer>>

\* clearEvents(): this.events = []
ClearEvents ==
    /\ analytics.events # << >>
    /\ analytics' = [analytics EXCEPT !.events = << >>]
    /\ lastOp' = Op("clearEvents", "-")
    /\ UNCHANGED <<contactVars, nav, header, app, bouncer, throttler>>

AnalyticsNext ==
    \/ \E y \in 0..MaxScrollY : AnalyticsScroll(y)
    \/ ClearEvents
    \/ ThrottleTimeout
    \/ ThrottleTick

AnalyticsSpec == QuietPage /\ [][AnalyticsNext]_vars

\* ------------------------------------------------------------------------
\* Properties
\* ------------------------------------------------------------------------
Idle ==
    /\ ~handler.isSubmitting
    /\ \A f \in FieldNames : ~fields[f].disabled
    /\ ~submitButton.disabled

\* the notification elements on the page
Attached == {notifications.attached[i] : i \in 1..Len(notifications.attached)}
AttachedAfter == {notifications'.attached[i] : i \in 1..Len(notifications'.attached)}

FailureOutcomes == Outcomes \ {"success"}

\* the step is a handleSubmit() that runs validateForm, and the form passes
SubmitStepValid ==
    /\ lastOp'.op = "handleSubmit"
    /\ ~handler.isSubmitting
    /\ validateForm(World, FormData(World)).ok

\* the step is a handleSubmit() that runs validateForm, and the form fails
SubmitStepInvalid ==
    /\ lastOp'.op = "handleSubmit"
    /\ ~handler.isSubmitting
    /\ ~validateForm(World, FormData(World)).ok

\* C1: at most one submitForm call is pending at any time, and a
\* handleSubmit() made while isSubmitting is true changes nothing: no
\* validation, no notification, no submitForm call.
C1_AtMostOneInFlight ==
    /\ [](Len(inflight) <= 1)
    /\ [][(handler.isSubmitting /\ lastOp'.op = "handleSubmit")
            => UNCHANGED <<validator, fields, groups, focused, handler, submitButton,
                           counter, debounceTimer, inflight, notifications>>]_vars

C1_Witness ==
    /\ lastOp = Op("handleSubmit", "ignored")
    /\ handler.isSubmitting
    /\ Len(inflight) = 1

\* C2: submitForm is called exactly once by a handleSubmit() whose validation
\* passed and by nothing else: not by a handleSubmit() whose validation
\* failed, and not by the handling of a failure outcome (no retry).
C2_SubmitOncePerValidPass ==
    [][/\ SubmitStepValid => Len(inflight') = Len(inflight) + 1
       /\ Len(inflight') > Len(inflight)
            => SubmitStepValid /\ Len(inflight') = Len(inflight) + 1
       /\ (lastOp'.op = "settled" /\ lastOp'.result \in FailureOutcomes)
            => Len(inflight') = Len(inflight) - 1]_vars

C2_Witness ==
    /\ lastOp.op = "settled"
    /\ lastOp.result \in FailureOutcomes
    /\ inflight = << >>

\* C3: whenever every pending submitForm call is one that settles (with
\* success, a failure flag, null or a rejection), the form is eventually
\* interactive again: isSubmitting false, every field and the button enabled.
AllSettle == \A i \in 1..Len(inflight) : inflight[i].settles

C3_EventuallyIdle == AllSettle ~> Idle

C3_Witness ==
    /\ handler.isSubmitting
    /\ Len(inflight) = 1
    /\ inflight[1].settles
    /\ inflight[1].elapsed = SUBMIT_DELAY

\* C4: a submitForm call that has been pending for SUBMISSION_TIMEOUT is
\* given up: the form is not in the submitting state any more.
C4_TimeoutEnforced ==
    \A i \in 1..Len(inflight) :
        inflight[i].elapsed >= SUBMISSION_TIMEOUT => ~handler.isSubmitting

\* C5: an input event on one field leaves the pending debounced validation of
\* every other field as it is.
C5_PerFieldDebounce ==
    [][\A f \in FieldNames :
          (/\ debounceTimer.pending
           /\ debounceTimer.field = f
           /\ lastOp'.op = "input"
           /\ focused # f)
          => debounceTimer' = debounceTimer]_vars

\* C6: while isSubmitting is true no single-field validation runs, and the
\* error set and the field markings stay as they are until the outcome.
C6_NoLiveValidationWhileSubmitting ==
    [][(handler.isSubmitting /\ handler'.isSubmitting)
          => /\ lastOp'.op \notin {"debounced", "focus"}
             /\ validator'.errors = validator.errors
             /\ groups' = groups
             /\ \A f \in FieldNames : fields'[f].aria = fields[f].aria]_vars

\* C7: right after a success outcome the notification on the page is the
\* success one, every field value is empty, the error set is empty, no
\* form group is marked error or success, and the counter shows 0.
C7_SuccessResetsForm ==
    lastOp = Op("settled", "success")
        => /\ \E id \in Attached : notifications.elements[id].type = "success"
           /\ \A id \in Attached : notifications.elements[id].type = "success"
           /\ \A f \in FieldNames : fields[f].value = EmptyStr
           /\ DOMAIN validator.errors = {}
           /\ \A f \in FieldNames : groups[f].classes = {}
           /\ counter.length = 0

\* C8: right after a success outcome the first field of the form has the focus.
C8_FocusRestored ==
    lastOp = Op("settled", "success") => focused = FieldOrder[1]

\* C9: a failure outcome (failure flag, null response, rejection) shows one
\* notification of type error, with the message of the response if it has one
\* and a fixed message otherwise, leaves every field value and marking as it
\* was, and leaves the form interactive.
C9_FailureKeepsValues ==
    [][(lastOp'.op = "settled" /\ lastOp'.result \in FailureOutcomes)
          => /\ \E id \in AttachedAfter :
                  /\ id = Len(notifications.elements) + 1
                  /\ notifications'.elements[id].type = "error"
                  /\ notifications'.elements[id].message =
                       (CASE lastOp'.result = "failure_message" -> SERVER_MESSAGE
                          [] lastOp'.result = "failure" -> MSG_ERROR
                          [] OTHER -> MSG_NETWORK_ERROR)
             /\ \A id \in AttachedAfter : notifications'.elements[id].type # "success"
             /\ \A f \in FieldNames : fields'[f].value = fields[f].value
             /\ groups' = groups
             /\ validator' = validator
             /\ counter' = counter
             /\ Idle']_vars

C9_Witness ==
    /\ lastOp = Op("settled", "failure_message")
    /\ Idle
    /\ \A f \in FieldNames : fields[f].value # EmptyStr

\* C10: a handleSubmit() in the idle state whose validation fails leaves the
\* form idle and every field enabled, calls submitForm not at all, shows a
\* notification of type error with the validation message, and gives the
\* focus to the first field, in document order, that is marked error.
FirstMarkedAfter ==
    LET bad == {i \in 1..Len(FieldOrder) : "error" \in groups'[FieldOrder[i]].classes}
    IN FieldOrder[CHOOSE i \in bad : \A j \in bad : i <= j]

C10_InvalidSubmitStaysIdle ==
    [][SubmitStepInvalid
          => /\ Idle'
             /\ inflight' = inflight
             /\ \E id \in AttachedAfter :
                  /\ id = Len(notifications.elements) + 1
                  /\ notifications'.elements[id].type = "error"
                  /\ notifications'.elements[id].message = MSG_VALIDATION_ERROR
             /\ \E f \in FieldNames : "error" \in groups'[f].classes
             /\ focused' = FirstMarkedAfter]_vars

C10_Witness ==
    /\ lastOp = Op("handleSubmit", "invalid")
    /\ "error" \notin groups["name"].classes
    /\ "error" \in groups["email"].classes
    /\ "error" \in groups["message"].classes
    /\ focused = "email"

\* C11: in every reachable state a field name is a key of the validator's
\* error set exactly when the latest validation of that field failed (and a
\* field that was never validated is not a key).
C11_ErrorKeyIffLastFailed ==
    \A f \in FieldNames : (f \in DOMAIN validator.errors) <=> (verdict[f] = "fail")

\* a field that failed on blur and passed the debounced validation of a
\* later input, next to one that still fails
C11_Witness ==
    /\ lastOp = Op("debounced", "-")
    /\ \E f, g \in FieldNames :
         /\ verdict[f] = "pass" /\ f \notin DOMAIN validator.errors
         /\ verdict[g] = "fail" /\ g \in DOMAIN validator.errors

\* The rules in the words of the design: a value is blank when it is empty
\* or whitespace only; it has the shape of an email address when it has an
\* @, a dot somewhere after it, and no whitespace.
Blank(v) == \A i \in 1..Len(v) : v[i].ch \in Whitespace

EmailShaped(v) ==
    LET cs == Chars(v)
    IN /\ \E i \in 1..Len(cs) : cs[i] = "@" /\ \E j \in (i + 1)..Len(cs) : cs[j] = "."
       /\ \A k \in 1..Len(cs) : cs[k] \notin Whitespace

FieldLabel(f) ==
    CASE f = "name" -> "Name" [] f = "email" -> "Email"
      [] f = "subject" -> "Subject" [] f = "message" -> "Message"

ExpectedError(f, v) ==
    IF Blank(v) THEN RequiredMessage(FieldLabel(f))
    ELSE IF f = "email" /\ ~EmailShaped(v) THEN MSG_INVALID_EMAIL
    ELSE IF f = "message" /\ StrLen(v) < 10 THEN MSG_TOO_SHORT
    ELSE IF f = "message" /\ StrLen(v) > 1000 THEN MSG_TOO_LONG
    ELSE "none"

Failing == {f \in FieldNames : ExpectedError(f, fields[f].value) # "none"}

Marking(f) == groups[f].classes \cap {"error", "success"}

\* C12: right after validateForm, whatever the state it was called in, its
\* return value is true exactly when no field fails its rules, the error set
\* holds exactly the failing fields with their messages, and every field is
\* marked error (failing) or success (passing).
C12_ValidateFormReplacesAll ==
    lastOp.op = "validateForm" =>
        /\ (lastOp.result = "true") <=> (Failing = {})
        /\ DOMAIN validator.errors = Failing
        /\ \A f \in Failing :
             /\ validator.errors[f] = ExpectedError(f, fields[f].value)
             /\ groups[f].errorText = ExpectedError(f, fields[f].value)
             /\ fields[f].aria = "true"
        /\ \A f \in FieldNames \ Failing :
             groups[f].errorText = "" /\ fields[f].aria = "false"
        /\ \A f \in FieldNames :
             Marking(f) = IF f \in Failing THEN {"error"} ELSE {"success"}

\* the scenario of the design: name empty, a well-formed email, subject Hi,
\* a message of 5 characters, after the message was changed by script
C12_Witness ==
    /\ lastOp = Op("validateForm", "false")
    /\ budget < MaxValueChanges
    /\ fields["name"].value = EmptyStr
    /\ fields["email"].value = Filled("email")
    /\ fields["subject"].value = Filled("subject")
    /\ fields["message"].value = <<Run("x", 5)>>
    /\ validator.errors = [f \in {"name", "message"} |->
                             IF f = "name" THEN "Name is required" ELSE MSG_TOO_SHORT]
    /\ Marking("email") = {"success"}
    /\ Marking("subject") = {"success"}

\* C13: for an empty or whitespace-only email, validateForm and
\* validateField(email) both leave the error "Email is required" on the
\* field, not the format error.
C13_RequiredBeforeFormat ==
    (/\ lastOp \in {Op("validateForm", "false"), Op("validateForm", "true"),
                    Op("validateField", "email")}
     /\ Blank(fields["email"].value))
    => /\ "email" \in DOMAIN validator.errors
       /\ validator.errors["email"] = "Email is required"
       /\ groups["email"].errorText = "Email is required"

C13_Witness ==
    /\ lastOp = Op("validateForm", "false")
    /\ fields["email"].value = <<Run(" ", 2)>>
    /\ validator.errors["email"] = "Email is required"

\* C16: a validateForm call that follows a validateForm call, the values
\* unchanged in between, returns what the first returned and leaves the
\* error set and every marking as they were.
C16_ValidateFormIdempotent ==
    lastOp.op = "validateForm" =>
        LET again == validateForm(World, FormData(World))
        IN /\ again.ok = (lastOp.result = "true")
           /\ again.w.validator.errors = validator.errors
           /\ again.w.groups = groups
           /\ again.w.fields = fields

\* after a first call made in a state left by earlier validations and a
\* change of value
C16_Witness ==
    /\ lastOp = Op("validateForm", "false")
    /\ budget < MaxValueChanges
    /\ \E f \in FieldNames : Marking(f) = {"success"}
    /\ \E f \in FieldNames : Marking(f) = {"error"}

\* C20: whatever the state and the values, visiting the four fields in any
\* order, with the rules of validateForm or with validateField, ends with
\* the same error set as the visit in document order (which is validateForm's).
VisitOrders ==
    {o \in [1..Len(FieldOrder) -> FieldNames] : \A i, j \in DOMAIN o : o[i] = o[j] => i = j}

RECURSIVE VisitForm(_, _, _)
VisitForm(w, order, formData) ==
    IF order = << >> THEN w
    ELSE VisitForm(validateFormField(w, Head(order), formData), Tail(order), formData)

RECURSIVE VisitFields(_, _)
VisitFields(w, order) ==
    IF order = << >> THEN w ELSE VisitFields(validateField(w, Head(order)), Tail(order))

C20_OrderIndependent ==
    LET now == World
        formData == FormData(now)
        inOrder == VisitForm(now, FieldOrder, formData).validator.errors
        fieldsInOrder == VisitFields(now, FieldOrder).validator.errors
    IN /\ inOrder = validateForm(now, formData).w.validator.errors
       /\ \A o \in VisitOrders :
            /\ VisitForm(now, o, formData).validator.errors = inOrder
            /\ VisitFields(now, o).validator.errors = fieldsInOrder

\* two fields fail and one passes, in a state whose error set is out of date
C20_Witness ==
    LET after == VisitFields(World, FieldOrder).validator.errors
    IN /\ Cardinality(DOMAIN after) = 2
       /\ validator.errors # after
       /\ lastOp.op = "setValue"

\* C14 as stated: for every string that is not empty and has not the shape
\* of an email address, validateEmail fails with the email-format message
\* and validateRequired passes.
C14_NonEmptyNonEmail ==
    LET v == fields["email"].value
    IN (v # EmptyStr /\ ~EmailShaped(v)) =>
         /\ lastOp = Op("validateEmail", "email") =>
              /\ verdict["email"] = "fail"
              /\ "email" \in DOMAIN validator.errors
              /\ validator.errors["email"] = MSG_INVALID_EMAIL
         /\ lastOp = Op("validateRequired", "email") => verdict["email"] = "pass"

\* C14, amended: for every string that is not blank (not empty and not
\* whitespace only) and has not the shape of an email address, validateEmail
\* fails with the email-format message and validateRequired passes.
C14_NonBlankNonEmail ==
    LET v == fields["email"].value
    IN (~Blank(v) /\ ~EmailShaped(v)) =>
         /\ lastOp = Op("validateEmail", "email") =>
              /\ verdict["email"] = "fail"
              /\ "email" \in DOMAIN validator.errors
              /\ validator.errors["email"] = MSG_INVALID_EMAIL
         /\ lastOp = Op("validateRequired", "email") => verdict["email"] = "pass"

\* validateEmail has failed on "a@a" after validateRequired passed on it
C14_Witness ==
    /\ fields["email"].value = <<Run("a", 1), Run("@", 1), Run("a", 1)>>
    /\ lastOp = Op("validateEmail", "email")
    /\ verdict["email"] = "fail"
    /\ validator.errors["email"] = MSG_INVALID_EMAIL
    /\ "success" \notin groups["email"].classes

\* C15: validateMessage passes on every string of 10 to 1000 characters, the
\* two boundaries included, fails with the too-short message on 1 to 9
\* characters and with the too-long message, a different one, on more than
\* 1000.
C15_MessageLengthRule ==
    lastOp = Op("validateMessage", "message") =>
        LET n == StrLen(fields["message"].value)
        IN /\ (n >= 10 /\ n <= 1000) =>
                /\ verdict["message"] = "pass"
                /\ "message" \notin DOMAIN validator.errors
                /\ Marking("message") = {"success"}
           /\ (n > 0 /\ n < 10) =>
                /\ verdict["message"] = "fail"
                /\ "message" \in DOMAIN validator.errors
                /\ validator.errors["message"] = MSG_TOO_SHORT
           /\ n > 1000 =>
                /\ verdict["message"] = "fail"
                /\ "message" \in DOMAIN validator.errors
                /\ validator.errors["message"] = MSG_TOO_LONG
           /\ MSG_TOO_SHORT # MSG_TOO_LONG

\* validateMessage has passed a message of exactly 1000 characters
C15_Witness ==
    /\ lastOp = Op("validateMessage", "message")
    /\ StrLen(fields["message"].value) = 1000
    /\ verdict["message"] = "pass"
    /\ Marking("message") = {"success"}

\* C19: the validation of one field f by the blur listener or by the
\* debounced input listener leaves alone the error-set entry and the marking
\* of every other field, every value, and the submission state (isSubmitting,
\* the disabled flags, the submit button).
OthersUntouched(f) ==
    /\ \A g \in FieldNames \ {f} :
         /\ (g \in DOMAIN validator'.errors) <=> (g \in DOMAIN validator.errors)
         /\ g \in DOMAIN validator.errors => validator'.errors[g] = validator.errors[g]
         /\ groups'[g] = groups[g]
         /\ fields'[g] = fields[g]
    /\ \A g \in FieldNames :
         /\ fields'[g].disabled = fields[g].disabled
         /\ fields'[g].value = fields[g].value
    /\ handler' = handler
    /\ submitButton' = submitButton
    /\ inflight' = inflight

C19_LiveValidationFrame ==
    [][/\ lastOp'.op = "debounced" => OthersUntouched(debounceTimer.field)
       /\ lastOp'.op = "focus" => OthersUntouched(focused)]_vars

\* the debounced validation has marked email error, next to a name marked
\* success on its blur and a subject never marked
C19_Witness ==
    /\ lastOp = Op("debounced", "-")
    /\ Marking("email") = {"error"}
    /\ Marking("name") = {"success"}
    /\ Marking("subject") = {}

\* C17: at every moment at most one notification element is on the page,
\* and a showNotification call leaves on the page the element it creates and
\* no other.
C17_OneNotification ==
    /\ [](Len(notifications.attached) <= 1)
    /\ [][lastOp'.op = "search"
            => /\ Len(notifications'.elements) = Len(notifications.elements) + 1
               /\ notifications'.attached = <<Len(notifications'.elements)>>]_vars

\* the second notification has replaced the first one, whose 5 s timer is
\* still pending
C17_Witness ==
    /\ Len(notifications.elements) = 2
    /\ notifications.attached = <<2>>
    /\ \E t \in notifications.autoTimers : t.id = 1

\* C18: a notification that is on the page is, later, not on the page: its
\* 5 s timer or a click on its close button takes it away 300 ms later,
\* unless a newer notification replaces it before.
C18_NotificationTransient ==
    \A id \in 1..MaxSearches : (id \in Attached) ~> (id \notin Attached)

\* the first notification is gone after its 5 s timer and the 300 ms of the
\* animation, no key pressed and no button clicked
C18_Witness ==
    /\ lastOp = Op("removed", "-")
    /\ Len(notifications.elements) = 1
    /\ notifications.elements[1].animation = "slideOut"
    /\ Attached = {}
    /\ budget = MaxLiveUserEvents

\* C21: in every reachable state isSubmitting is true exactly when every
\* field is disabled, exactly when some field is disabled, and exactly when
\* the submit button is disabled, loading and labelled "Sending...".
C21_DisabledIffSubmitting ==
    /\ \A f \in FieldNames : fields[f].disabled = handler.isSubmitting
    /\ submitButton.disabled = handler.isSubmitting
    /\ submitButton.loading = handler.isSubmitting
    /\ (submitButton.text = "Sending...") = handler.isSubmitting
    /\ (submitButton.text = "Send Message") = ~handler.isSubmitting

\* the form is back to idle after a submission that failed
C21_Witness ==
    /\ lastOp = Op("settled", "failure")
    /\ ~handler.isSubmitting
    /\ \A f \in FieldNames : ~fields[f].disabled
    /\ submitButton = [disabled |-> FALSE, loading |-> FALSE, text |-> "Send Message"]

\* C22: an input event on the message field sets the counter, in the same
\* step, to the length of the value; its colour is the danger colour exactly
\* when fewer than 50 of the 1000 characters remain, the warning colour
\* exactly when at least 50 and fewer than 100 remain, and the normal colour
\* otherwise; the step changes no entry of the error set and no marking.
C22_CounterOnInput ==
    [][(lastOp'.op = "input" /\ focused = "message")
         => LET n == StrLen(fields'["message"].value)
                remaining == 1000 - n
            IN /\ counter'.length = n
               /\ (counter'.color = RED) <=> (remaining < 50)
               /\ (counter'.color = YELLOW) <=> (remaining >= 50 /\ remaining < 100)
               /\ (counter'.color = GREY) <=> (remaining >= 100)
               /\ validator' = validator
               /\ groups' = groups
               /\ \A f \in FieldNames : fields'[f].aria = fields[f].aria]_vars

\* 950 characters typed, 50 remain: the warning colour
C22_Witness ==
    /\ lastOp = Op("input", "-")
    /\ fields["message"].value = <<Run("x", 950)>>
    /\ counter = [length |-> 950, color |-> YELLOW]

\* C23: the debounced function runs only when the full wait has passed
\* since the latest call, only when a call was made since it ran last, and
\* with the argument of the latest call; and every burst of calls is
\* followed by a run.
C23_DebounceQuietPeriod ==
    /\ [][lastOp'.op = "later"
            => /\ bouncer.quiet = 300
               /\ bouncer.burst >= 1
               /\ bouncer'.burst = 0
               /\ bouncer'.runs = Append(bouncer.runs, bouncer.args)
               /\ bouncer'.timers = {}]_vars
    /\ (bouncer.burst > 0) ~> (bouncer.burst = 0)

\* two calls 100 ms apart, name and then email, and one run, for email
C23_Witness ==
    /\ lastOp = Op("later", "email")
    /\ bouncer.calls = 2
    /\ bouncer.created = 2
    /\ bouncer.runs = <<"email">>

\* C24: for every combination of field values, and in every state, a field
\* passes validateField exactly when it passes within validateForm, and
\* fails with the same message.
C24_FieldAndFormAgree ==
    LET form == validateForm(World, FormData(World)).w.validator.errors
    IN \A f \in FieldNames :
         LET single == validateField(World, f).validator.errors
         IN /\ (f \in DOMAIN single) <=> (f \in DOMAIN form)
            /\ (f \in DOMAIN single /\ f \in DOMAIN form) => single[f] = form[f]

\* C25: in every reachable state the form group of a field carries the error
\* class, and the field aria-invalid "true", exactly when the field name is a
\* key of the validator's error set.
C25_MarkingsMirrorErrors ==
    \A f \in FieldNames :
        /\ ("error" \in groups[f].classes) <=> (f \in DOMAIN validator.errors)
        /\ (fields[f].aria = "true") <=> (f \in DOMAIN validator.errors)

\* C26: a step of the 5 s timer or of the delayed removal of one notification
\* leaves every other notification as it was: on the page or not, and with
\* the animation it had.
OnlyTouches(id) ==
    /\ notifications'.elements = [notifications.elements EXCEPT ![id] = notifications'.elements[id]]
    /\ \A j \in Attached \ {id} : j \in AttachedAfter
    /\ AttachedAfter \subseteq Attached

C26_TimersActOnOwnNotification ==
    [][/\ lastOp'.op = "autoDismiss" =>
            \E t \in notifications.autoTimers : t.left = 0 /\ OnlyTouches(t.id)
       /\ lastOp'.op = "removed" =>
            \E t \in notifications.removeTimers : t.left = 0 /\ OnlyTouches(t.id)]_vars

\* the 5 s timer of the first notification has run after the second one
\* replaced it: the second is on the page, not animated away
C26_Witness ==
    /\ lastOp = Op("autoDismiss", "-")
    /\ Len(notifications.elements) = 2
    /\ \A t \in notifications.autoTimers : t.id # 1
    /\ \E t \in notifications.autoTimers : t.id = 2
    /\ notifications.attached = <<2>>
    /\ notifications.elements[2].animation = "slideIn"
    /\ notifications.removeTimers = {}

\* C27: whenever the mobile menu is closed, however it was closed, no
\* Tab-trapping keydown handler of trapFocus is registered, and an open menu
\* has exactly one: the handlers do not pile up over open/close cycles
C27_TrapRemovedOnClose ==
    /\ ~nav.isOpen => nav.tabHandlers = 0
    /\ nav.isOpen => nav.tabHandlers = 1

\* C30: isOpen, the active class of the nav links, aria-expanded "true" and
\* the scroll lock of the body are all on or all off in every state
C30_OpenStateConsistent ==
    /\ nav.isOpen <=> nav.active
    /\ nav.isOpen <=> (nav.ariaExpanded = "true")
    /\ nav.isOpen <=> (nav.overflow = "hidden")

\* the menu was opened a second time and then closed by the debounced resize
\* handler on a wide window
C30_Witness ==
    /\ lastOp = Op("resized", "-")
    /\ nav.opens >= 2
    /\ nav.width > NAV_BREAKPOINT
    /\ ~nav.isOpen /\ ~nav.active /\ nav.ariaExpanded = "false" /\ nav.overflow = ""

\* C28: under any sequence of scroll and resize events the header is hidden
\* only while the viewport is at most 1024 wide
C28_HiddenOnlyOnNarrow ==
    header.isHeaderHidden => header.width <= HEADER_BREAKPOINT

\* C29: over any sequence of init() calls every component is constructed at
\* most once, and every call after the first only warns
C29_InitializedOnce ==
    /\ \A c \in Components : app.constructed[c] <= 1
    /\ app.calls >= 1 => app.warnings = app.calls - 1

\* C32: a call of the throttled function outside a window runs func at once
\* with the arguments of the call and opens a window of THROTTLE_DELAY ms; a
\* call inside a window runs nothing and schedules nothing; func runs at no
\* other moment, and a window never ends before its THROTTLE_DELAY ms are over
C32_ThrottleDropsCalls ==
    [][/\ (lastOp'.op = "call" /\ ~throttler.inThrottle) =>
             /\ throttler'.runs = Append(throttler.runs, lastOp'.result)
             /\ throttler'.inThrottle
             /\ \E timer \in throttler'.timers : timer.left = THROTTLE_DELAY
       /\ (lastOp'.op = "call" /\ throttler.inThrottle) =>
             /\ throttler'.runs = throttler.runs
             /\ throttler'.timers = throttler.timers
             /\ throttler'.inThrottle
       /\ lastOp'.op # "call" => throttler'.runs = throttler.runs
       /\ (throttler.inThrottle /\ ~throttler'.inThrottle) => throttler.age >= THROTTLE_DELAY
       /\ Cardinality(throttler'.timers) <= 1]_vars

\* two calls came inside the window of the first one, the window is over and
\* func has run once, with the arguments of the first call
C32_Witness ==
    /\ lastOp = Op("release", "-")
    /\ throttler.calls = 3
    /\ throttler.runs = <<"scroll1">>
    /\ ~throttler.inThrottle
    /\ throttler.timers = {}

\* the number of Scroll_Depth events for the milestone m that trackEvent
\* was given so far
ScrollDepthEvents(m) ==
    Cardinality({i \in 1..Len(analytics.produced) :
                   /\ analytics.produced[i].name = "Scroll_Depth"
                   /\ analytics.produced[i].percentage = m})

\* C31: over any sequence of scroll events every milestone has produced at
\* most one Scroll_Depth event, exactly one if it is recorded, and with a
\* recorded milestone every lower milestone is recorded too
C31_MilestonesOnceAndInOrder ==
    \A i \in 1..Len(ScrollMilestones) :
        LET m == ScrollMilestones[i]
        IN /\ ScrollDepthEvents(m) <= 1
           /\ (m \in analytics.trackedMilestones) <=> (ScrollDepthEvents(m) = 1)
           /\ (m \in analytics.trackedMilestones) =>
                 \A j \in 1..(i - 1) : ScrollMilestones[j] \in analytics.trackedMilestones

\* the page was scrolled past 75 %, back, and now past 50 % again: the run
\* of trackScrollDepth found both milestones recorded and produced nothing
C31_Witness ==
    /\ lastOp = Op("scroll", "handled")
    /\ analytics.trackedMilestones = {25, 50, 75}
    /\ scrollPercent(analytics.scrollY) >= 50
    /\ scrollPercent(analytics.scrollY) < 75
    /\ analytics.added = 0
    /\ Len(analytics.produced) = 3

====
